---- MODULE Spec2Model ----
(***************************************************************************)
(* Model of the fs-child actor (src/src/lib.rs): the command extractor,    *)
(* the permission gate, the operation executor, the chain loader and the   *)
(* request dispatcher.                                                     *)
(*                                                                         *)
(* Text is a sequence of tokens.  A token is either one of the markers the *)
(* code searches for ("<operation>", "</fs-command>", ...) or a piece of   *)
(* plain text that contains neither '<' nor '>'.  Every marker starts with *)
(* '<', ends with '>' and has no '<' inside, so an occurrence of a marker  *)
(* in the byte string is exactly an occurrence of its token, and byte      *)
(* offsets returned by str::find correspond to token positions.            *)
(*                                                                         *)
(* Option<T> is a sequence of length at most one: None == <<>>,            *)
(* Some(v) == <<v>>.                                                       *)
(***************************************************************************)
EXTENDS Integers, Sequences, FiniteSets, TLC

VARIABLES
    state,      \* the persisted State the host holds between requests
    fs,         \* the host's file resource
    received,   \* the State handed to the last handler
    fsBefore,   \* the file resource when the last handler started
    lastReq,    \* the request the last handler processed
    lastResp,   \* the store's response during the last handler (None if no round trip)
    storeReqs,  \* the store requests sent by the last handler
    fsCalls,    \* the file-resource calls made by the last handler
    commands,   \* the commands the last handler extracted
    results,    \* the results process_fs_commands returned to the last handler
    loaded,     \* the ChainEntry load_message returned to the last handler (None if none)
    reply,      \* the reply of the last handler (None if it returned none)
    xBlocks,    \* extraction harness: the blocks the input text is made of
    xName,      \* extraction harness: the instance name
    xResult     \* extraction harness: the outcome of extract_fs_commands (None before the call)

vars == <<state, fs, received, fsBefore, lastReq, lastResp, storeReqs, fsCalls,
          commands, results, loaded, reply, xBlocks, xName, xResult>>

None == <<>>
Some(v) == <<v>>
IsSome(o) == Len(o) = 1
Unwrap(o) == o[1]

(***************************************************************************)
(* Bounds                                                                  *)
(***************************************************************************)
MaxBlocks == 2
MaxSiblings == 3
MaxCmds == 2

(***************************************************************************)
(* str helpers                                                             *)
(***************************************************************************)
\* str::find: the position of the first occurrence, 0 for Option::None
Find(s, tok) ==
    LET hits == {i \in 1..Len(s) : s[i] = tok} IN
    IF hits = {} THEN 0 ELSE CHOOSE i \in hits : \A j \in hits : i <= j

\* str::split(marker).collect(): the pieces between occurrences of the marker
RECURSIVE Split(_, _)
Split(s, marker) ==
    LET i == Find(s, marker) IN
    IF i = 0 THEN <<s>>
    ELSE <<SubSeq(s, 1, i - 1)>> \o Split(SubSeq(s, i + 1, Len(s)), marker)

\* iter().skip(1)
Skip1(parts) == SubSeq(parts, 2, Len(parts))

\* format!("<fs-command name=\"{}\">", instance_name)
Marker(instance_name) == "<fs-command name=\"" \o instance_name \o "\">"

BareMarker == "<fs-command>"
EndMarker == "</fs-command>"

(***************************************************************************)
(* extract_fs_commands                                                     *)
(***************************************************************************)
FieldLastPair(xml, open, close) ==
    LET opens  == {i \in 1..Len(xml) : xml[i] = open}
        closes == {i \in 1..Len(xml) : xml[i] = close}
        start  == IF opens = {} THEN 0 ELSE CHOOSE i \in opens : \A j \in opens : j <= i
        end    == IF closes = {} THEN 0 ELSE CHOOSE i \in closes : \A j \in closes : j <= i
    IN [found  |-> start # 0 /\ end # 0,
        faults |-> start # 0 /\ end # 0 /\ end < start,
        val    |-> SubSeq(xml, start + 1, end - 1)]

\* (xml.find(open), xml.find(close)) and the slice &xml[start + len(open)..end]
\* taken when both are Some: the slice faults (its start lies past its end)
\* exactly when the closing marker is found before the opening one
Field(xml, open, close) ==
    LET start == Find(xml, open)
        end   == Find(xml, close)
    IN [found  |-> start # 0 /\ end # 0,
        faults |-> start # 0 /\ end # 0 /\ end < start,
        val    |-> SubSeq(xml, start + 1, end - 1)]

\* the optional fields: Some(slice) when both markers are found, else None
OptField(f) == IF f.found THEN Some(f.val) ELSE None

\* One iteration of the loop over parts: [fault, cmds] where cmds holds the
\* command pushed by this part, if any.
ParsePart(part) ==
    LET cmd_end   == Find(part, EndMarker)
        cmd_xml   == SubSeq(part, 1, cmd_end - 1)
        operation == Field(cmd_xml, "<operation>", "</operation>")
        path      == Field(cmd_xml, "<path>", "</path>")
        content   == Field(cmd_xml, "<content>", "</content>")
        old_text  == Field(cmd_xml, "<old_text>", "</old_text>")
        new_text  == Field(cmd_xml, "<new_text>", "</new_text>")
    IN
    IF cmd_end = 0 \/ ~operation.found THEN [fault |-> FALSE, cmds |-> <<>>]
    ELSE IF operation.faults THEN [fault |-> TRUE, cmds |-> <<>>]
    ELSE IF ~path.found THEN [fault |-> FALSE, cmds |-> <<>>]
    ELSE IF path.faults \/ content.faults \/ old_text.faults \/ new_text.faults
         THEN [fault |-> TRUE, cmds |-> <<>>]
    ELSE [fault |-> FALSE,
          cmds |-> << [operation |-> operation.val,
                       path      |-> path.val,
                       content   |-> OptField(content),
                       old_text  |-> OptField(old_text),
                       new_text  |-> OptField(new_text)] >>]

RECURSIVE ParsePartsStopAtSkipped(_)
ParsePartsStopAtSkipped(parts) ==
    IF parts = <<>> THEN [fault |-> FALSE, cmds |-> <<>>]
    ELSE LET first == ParsePart(Head(parts)) IN
         IF first.fault \/ first.cmds = <<>> THEN first
         ELSE LET rest == ParsePartsStopAtSkipped(Tail(parts)) IN
              [fault |-> rest.fault,
               cmds |-> IF rest.fault THEN <<>> ELSE first.cmds \o rest.cmds]

\* for part in parts: a fault in any iteration ends the call with no result
RECURSIVE ParseParts(_)
ParseParts(parts) ==
    IF parts = <<>> THEN [fault |-> FALSE, cmds |-> <<>>]
    ELSE LET first == ParsePart(Head(parts)) IN
         IF first.fault THEN first
         ELSE LET rest == ParseParts(Tail(parts)) IN
              [fault |-> rest.fault,
               cmds |-> IF rest.fault THEN <<>> ELSE first.cmds \o rest.cmds]

ExtractBareToo(content, instance_name) ==
    LET named == ParseParts(Skip1(Split(content, Marker(instance_name))))
        bare  == ParseParts(Skip1(Split(content, BareMarker)))
    IN [fault |-> named.fault \/ bare.fault,
        cmds |-> IF named.fault \/ bare.fault THEN <<>> ELSE named.cmds \o bare.cmds]

\* State::extract_fs_commands(content, instance_name): [fault, cmds]
ExtractFsCommands(content, instance_name) ==
    ParseParts(Skip1(Split(content, Marker(instance_name))))

(***************************************************************************)
(* The host's file resource (imports read_file, write_file, list_files,    *)
(* create_dir, delete_file): a flat map from resolved paths to contents    *)
(* and a set of directories.  Each call returns [ok, fs, value].           *)
(***************************************************************************)
Without(f, p) == [q \in (DOMAIN f) \ {p} |-> f[q]]

FsReadFile(r, path) ==
    IF path \in DOMAIN r.files
    THEN [ok |-> TRUE, fs |-> r, value |-> r.files[path]]
    ELSE [ok |-> FALSE, fs |-> r, value |-> [utf8 |-> TRUE, text |-> <<>>]]

FsWriteFile(r, path, text) ==
    IF path \in r.dirs
    THEN [ok |-> FALSE, fs |-> r, value |-> {}]
    ELSE [ok |-> TRUE,
          fs |-> [r EXCEPT !.files = (path :> [utf8 |-> TRUE, text |-> text]) @@ r.files],
          value |-> {}]

FsListFiles(r, path) ==
    IF path \in r.dirs
    THEN [ok |-> TRUE, fs |-> r, value |-> (DOMAIN r.files) \cup (r.dirs \ {path})]
    ELSE [ok |-> FALSE, fs |-> r, value |-> {}]

FsCreateDir(r, path) ==
    IF path \in r.dirs \/ path \in DOMAIN r.files
    THEN [ok |-> FALSE, fs |-> r, value |-> {}]
    ELSE [ok |-> TRUE, fs |-> [r EXCEPT !.dirs = r.dirs \cup {path}], value |-> {}]

FsDeleteFile(r, path) ==
    IF path \in DOMAIN r.files
    THEN [ok |-> TRUE, fs |-> [r EXCEPT !.files = Without(r.files, path)], value |-> {}]
    ELSE [ok |-> FALSE, fs |-> r, value |-> {}]

(***************************************************************************)
(* process_fs_commands                                                     *)
(***************************************************************************)
\* Vec::contains
Contains(vec, x) == \E i \in 1..Len(vec) : vec[i] = x

StrContainsAlways(s, pat) == TRUE

\* str::contains(pattern)
StrContains(s, pat) ==
    \E i \in 0..(Len(s) - Len(pat)) : SubSeq(s, i + 1, i + Len(pat)) = pat

\* str::replace(from, to): every non-overlapping match, left to right; an
\* empty pattern matches before every character and at the end
RECURSIVE Intersperse(_, _)
Intersperse(s, to) ==
    IF s = <<>> THEN to ELSE to \o <<Head(s)>> \o Intersperse(Tail(s), to)

RECURSIVE ReplaceFirstOnly(_, _, _)
ReplaceFirstOnly(s, from, to) ==
    IF Len(s) < Len(from) THEN s
    ELSE IF SubSeq(s, 1, Len(from)) = from
         THEN to \o SubSeq(s, Len(from) + 1, Len(s))
         ELSE <<Head(s)>> \o ReplaceFirstOnly(Tail(s), from, to)

RECURSIVE ReplaceNonEmpty(_, _, _)
ReplaceNonEmpty(s, from, to) ==
    IF Len(s) < Len(from) THEN s
    ELSE IF SubSeq(s, 1, Len(from)) = from
         THEN to \o ReplaceNonEmpty(SubSeq(s, Len(from) + 1, Len(s)), from, to)
         ELSE <<Head(s)>> \o ReplaceNonEmpty(Tail(s), from, to)

RECURSIVE StrReplaceFirst(_, _, _)
StrReplaceFirst(s, from, to) ==
    IF Len(s) < Len(from) THEN s
    ELSE IF SubSeq(s, 1, Len(from)) = from
         THEN to \o SubSeq(s, Len(from) + 1, Len(s))
         ELSE <<Head(s)>> \o StrReplaceFirst(Tail(s), from, to)

StrReplace(s, from, to) ==
    IF from = <<>> THEN Intersperse(s, to) ELSE ReplaceNonEmpty(s, from, to)

\* State::resolve_path
ResolvePath(st, relative_path) ==
    IF relative_path # <<>> /\ Head(relative_path) = "/"
    THEN relative_path
    ELSE st.base_path \o <<"/">> \o relative_path

OperationAllowedDeleteOpen(operation, permissions) ==
    IF operation \in {<<"read-file">>, <<"list-files">>} THEN Contains(permissions, "read")
    ELSE IF operation \in {<<"write-file">>, <<"create-dir">>, <<"edit-file">>}
         THEN Contains(permissions, "write")
    ELSE IF operation = <<"delete-file">> THEN TRUE
    ELSE FALSE

OperationAllowedDefaultAllow(operation, permissions) ==
    IF operation \in {<<"read-file">>, <<"list-files">>} THEN Contains(permissions, "read")
    ELSE IF operation \in {<<"write-file">>, <<"create-dir">>, <<"edit-file">>}
         THEN Contains(permissions, "write")
    ELSE IF operation = <<"delete-file">> THEN Contains(permissions, "write")
    ELSE TRUE

OperationAllowedEditOnRead(operation, permissions) ==
    IF operation \in {<<"read-file">>, <<"list-files">>, <<"edit-file">>}
    THEN Contains(permissions, "read")
    ELSE IF operation \in {<<"write-file">>, <<"create-dir">>}
         THEN Contains(permissions, "write")
    ELSE IF operation = <<"delete-file">> THEN Contains(permissions, "write")
    ELSE FALSE

OperationAllowedReadOnWrite(operation, permissions) ==
    IF operation = <<"read-file">>
    THEN Contains(permissions, "read") \/ Contains(permissions, "write")
    ELSE IF operation = <<"list-files">> THEN Contains(permissions, "read")
    ELSE IF operation \in {<<"write-file">>, <<"create-dir">>, <<"edit-file">>}
         THEN Contains(permissions, "write")
    ELSE IF operation = <<"delete-file">> THEN Contains(permissions, "write")
    ELSE FALSE

\* let operation_allowed = match cmd.operation.as_str() { ... }
OperationAllowed(operation, permissions) ==
    IF operation \in {<<"read-file">>, <<"list-files">>} THEN Contains(permissions, "read")
    ELSE IF operation \in {<<"write-file">>, <<"create-dir">>, <<"edit-file">>}
         THEN Contains(permissions, "write")
    ELSE IF operation = <<"delete-file">> THEN Contains(permissions, "write")
    ELSE FALSE

\* a result (operation, message): the message is kept as its format string's
\* kind and arguments
Result(cmd, kind, detail) ==
    [operation |-> cmd.operation, kind |-> kind, path |-> cmd.path, detail |-> detail]

Call(fn, path, cmd) == [fn |-> fn, path |-> path, operation |-> cmd.operation]

NoDetail == <<>>

\* the match on cmd.operation of an allowed command: [fs, calls, result]
Dispatch(st, r, cmd) ==
    LET path == ResolvePath(st, cmd.path) IN
    IF cmd.operation = <<"read-file">> THEN
        LET rd == FsReadFile(r, path) IN
        [fs |-> rd.fs, calls |-> <<Call("read_file", path, cmd)>>,
         result |-> IF ~rd.ok THEN Result(cmd, "Failed to read file", NoDetail)
                    ELSE IF rd.value.utf8 THEN Result(cmd, "Contents of", rd.value.text)
                    ELSE Result(cmd, "Failed to decode file content", NoDetail)]
    ELSE IF cmd.operation = <<"write-file">> THEN
        IF IsSome(cmd.content) THEN
            LET wr == FsWriteFile(r, path, Unwrap(cmd.content)) IN
            [fs |-> wr.fs, calls |-> <<Call("write_file", path, cmd)>>,
             result |-> IF wr.ok THEN Result(cmd, "Successfully wrote to file", NoDetail)
                        ELSE Result(cmd, "Failed to write to file", NoDetail)]
        ELSE [fs |-> r, calls |-> <<>>,
              result |-> Result(cmd, "No content provided for write operation", NoDetail)]
    ELSE IF cmd.operation = <<"edit-file">> THEN
        IF IsSome(cmd.old_text) /\ IsSome(cmd.new_text) THEN
            LET rd == FsReadFile(r, path)
                old_text == Unwrap(cmd.old_text)
                new_text == Unwrap(cmd.new_text)
            IN
            IF ~rd.ok THEN
                [fs |-> rd.fs, calls |-> <<Call("read_file", path, cmd)>>,
                 result |-> Result(cmd, "Failed to read file", NoDetail)]
            ELSE IF ~rd.value.utf8 THEN
                [fs |-> rd.fs, calls |-> <<Call("read_file", path, cmd)>>,
                 result |-> Result(cmd, "Failed to decode file content", NoDetail)]
            ELSE IF StrContains(rd.value.text, old_text) THEN
                LET wr == FsWriteFile(rd.fs, path, StrReplace(rd.value.text, old_text, new_text)) IN
                [fs |-> wr.fs,
                 calls |-> <<Call("read_file", path, cmd), Call("write_file", path, cmd)>>,
                 result |-> IF wr.ok THEN Result(cmd, "Successfully edited file", NoDetail)
                            ELSE Result(cmd, "Failed to write edited content to", NoDetail)]
            ELSE [fs |-> rd.fs, calls |-> <<Call("read_file", path, cmd)>>,
                  result |-> Result(cmd, "Text to replace not found in", NoDetail)]
        ELSE [fs |-> r, calls |-> <<>>,
              result |-> Result(cmd, "Both old_text and new_text must be provided for edit operation", NoDetail)]
    ELSE IF cmd.operation = <<"list-files">> THEN
        LET ls == FsListFiles(r, path) IN
        [fs |-> ls.fs, calls |-> <<Call("list_files", path, cmd)>>,
         result |-> IF ls.ok THEN Result(cmd, "Contents of", ls.value)
                    ELSE Result(cmd, "Failed to list files in", NoDetail)]
    ELSE IF cmd.operation = <<"create-dir">> THEN
        LET cr == FsCreateDir(r, path) IN
        [fs |-> cr.fs, calls |-> <<Call("create_dir", path, cmd)>>,
         result |-> IF cr.ok THEN Result(cmd, "Created directory", NoDetail)
                    ELSE Result(cmd, "Failed to create directory", NoDetail)]
    ELSE IF cmd.operation = <<"delete-file">> THEN
        LET dl == FsDeleteFile(r, path) IN
        [fs |-> dl.fs, calls |-> <<Call("delete_file", path, cmd)>>,
         result |-> IF dl.ok THEN Result(cmd, "Deleted file", NoDetail)
                    ELSE Result(cmd, "Failed to delete file", NoDetail)]
    ELSE [fs |-> r, calls |-> <<>>, result |-> Result(cmd, "Unknown operation", NoDetail)]

ProcessOneDefaultPayload(st, r, cmd) ==
    IF ~OperationAllowed(cmd.operation, st.permissions)
    THEN [fs |-> r, calls |-> <<>>, result |-> Result(cmd, "not permitted", NoDetail)]
    ELSE Dispatch(st, r, [cmd EXCEPT !.content  = IF IsSome(@) THEN @ ELSE Some(<<>>),
                                     !.old_text = IF IsSome(@) THEN @ ELSE Some(<<>>),
                                     !.new_text = IF IsSome(@) THEN @ ELSE Some(<<>>)])

\* one iteration of the loop over commands: [fs, calls, result]
ProcessOne(st, r, cmd) ==
    IF ~OperationAllowed(cmd.operation, st.permissions)
    THEN [fs |-> r, calls |-> <<>>, result |-> Result(cmd, "not permitted", NoDetail)]
    ELSE Dispatch(st, r, cmd)

RECURSIVE ProcessFsCommandsDropDenied(_, _, _)
ProcessFsCommandsDropDenied(st, r, cmds) ==
    IF cmds = <<>> THEN [fs |-> r, calls |-> <<>>, results |-> <<>>]
    ELSE LET one  == ProcessOne(st, r, Head(cmds))
             rest == ProcessFsCommandsDropDenied(st, one.fs, Tail(cmds))
         IN [fs |-> rest.fs, calls |-> one.calls \o rest.calls,
             results |-> (IF one.result.kind = "not permitted" THEN <<>> ELSE <<one.result>>)
                         \o rest.results]

RECURSIVE ProcessFsCommandsStopAtDenial(_, _, _)
ProcessFsCommandsStopAtDenial(st, r, cmds) ==
    IF cmds = <<>> THEN [fs |-> r, calls |-> <<>>, results |-> <<>>]
    ELSE LET one  == ProcessOne(st, r, Head(cmds))
             rest == IF one.result.kind = "not permitted"
                     THEN [fs |-> one.fs, calls |-> <<>>,
                           results |-> [i \in 1..(Len(cmds) - 1) |->
                                           Result(cmds[i + 1], "not permitted", NoDetail)]]
                     ELSE ProcessFsCommandsStopAtDenial(st, one.fs, Tail(cmds))
         IN [fs |-> rest.fs, calls |-> one.calls \o rest.calls,
             results |-> <<one.result>> \o rest.results]

\* State::process_fs_commands(&self, commands): [fs, calls, results]
RECURSIVE ProcessFsCommands(_, _, _)
ProcessFsCommands(st, r, cmds) ==
    IF cmds = <<>> THEN [fs |-> r, calls |-> <<>>, results |-> <<>>]
    ELSE LET one  == ProcessOne(st, r, Head(cmds))
             rest == ProcessFsCommands(st, one.fs, Tail(cmds))
         IN [fs |-> rest.fs, calls |-> one.calls \o rest.calls,
             results |-> <<one.result>> \o rest.results]

(***************************************************************************)
(* State: construction and (de)serialization                               *)
(***************************************************************************)
\* serde_json of Option<String>: null or a string
JsonOpt(o) == IF IsSome(o) THEN [null |-> FALSE, str |-> Unwrap(o)] ELSE [null |-> TRUE, str |-> ""]
FromJsonOpt(j) == IF j.null THEN None ELSE Some(j.str)

\* serde_json::to_vec(&State)
SerializeState(st) ==
    [name |-> st.name, child_id |-> JsonOpt(st.child_id), store_id |-> JsonOpt(st.store_id),
     base_path |-> st.base_path, permissions |-> st.permissions]

\* serde_json::from_slice::<State>
DeserializeState(bytes) ==
    [name |-> bytes.name, child_id |-> FromJsonOpt(bytes.child_id),
     store_id |-> FromJsonOpt(bytes.store_id),
     base_path |-> bytes.base_path, permissions |-> bytes.permissions]

\* filter_map(|v| v.as_str().map(String::from)): array elements are Some(s)
\* for a JSON string and None for any other JSON value
RECURSIVE FilterStrings(_)
FilterStrings(arr) ==
    IF arr = <<>> THEN <<>>
    ELSE (IF IsSome(Head(arr)) THEN <<Unwrap(Head(arr))>> ELSE <<>>) \o FilterStrings(Tail(arr))

DefaultState ==
    [name |-> "default", child_id |-> None, store_id |-> None,
     base_path |-> <<".">>, permissions |-> <<"read", "write">>]

\* State::new(init_data): init_data is None, or Some of bytes that are either
\* not JSON or a JSON value with optional name, base_path and permissions
StateNew(init_data) ==
    IF IsSome(init_data) /\ Unwrap(init_data).json
    THEN LET config == Unwrap(init_data) IN
         [name |-> IF IsSome(config.name) THEN Unwrap(config.name) ELSE "default",
          child_id |-> None,
          store_id |-> None,
          base_path |-> IF IsSome(config.base_path) THEN Unwrap(config.base_path) ELSE <<".">>,
          permissions |-> IF IsSome(config.permissions)
                          THEN FilterStrings(Unwrap(config.permissions))
                          ELSE <<"read", "write">>]
    ELSE DefaultState

(***************************************************************************)
(* load_message                                                            *)
(***************************************************************************)
NoEntry == [parent |-> None, id |-> None, data |-> [tag |-> "none", texts |-> <<>>]]

\* serde_json::from_slice::<ChainEntry>(&bytes): bytes either hold the JSON
\* of a ChainEntry or do not
DecodeEntry(bytes) ==
    IF bytes.chain_entry THEN [ok |-> TRUE, entry |-> bytes.entry]
    ELSE [ok |-> FALSE, entry |-> NoEntry]

LoadErr(reqs, err) == [ok |-> FALSE, entry |-> NoEntry, err |-> err, reqs |-> reqs]

LoadMessageEitherShape(st, id, resp) ==
    IF ~IsSome(st.store_id) THEN LoadErr(<<>>, "Store ID not set")
    ELSE
    LET reqs == << [store |-> Unwrap(st.store_id), type |-> "request", get |-> id] >>
        payload == IF IsSome(resp.data_get_value) THEN resp.data_get_value ELSE resp.value
    IN
    IF ~resp.transport_ok THEN LoadErr(reqs, "transport error")
    ELSE IF ~resp.json THEN LoadErr(reqs, "response is not JSON")
    ELSE IF resp.status = Some("ok") /\ IsSome(payload) THEN
        LET value == Unwrap(payload) IN
        IF ~value.array THEN LoadErr(reqs, "Expected byte array")
        ELSE IF ~DecodeEntry(value.bytes).ok THEN LoadErr(reqs, "entry does not decode")
        ELSE [ok |-> TRUE, entry |-> DecodeEntry(value.bytes).entry, err |-> "", reqs |-> reqs]
    ELSE LoadErr(reqs, "Failed to load message from store")

LoadMessageAnyStatus(st, id, resp) ==
    IF ~IsSome(st.store_id) THEN LoadErr(<<>>, "Store ID not set")
    ELSE
    LET reqs == << [store |-> Unwrap(st.store_id), type |-> "request", get |-> id] >> IN
    IF ~resp.transport_ok THEN LoadErr(reqs, "transport error")
    ELSE IF ~resp.json THEN LoadErr(reqs, "response is not JSON")
    ELSE IF IsSome(resp.data_get_value) THEN
        LET value == Unwrap(resp.data_get_value) IN
        IF ~value.array THEN LoadErr(reqs, "Expected byte array")
        ELSE IF ~DecodeEntry(value.bytes).ok THEN LoadErr(reqs, "entry does not decode")
        ELSE [ok |-> TRUE, entry |-> DecodeEntry(value.bytes).entry, err |-> "", reqs |-> reqs]
    ELSE LoadErr(reqs, "Failed to load message from store")

\* State::load_message(&self, id) against the store's response resp:
\* [ok, entry, err, reqs], reqs being the requests sent to the store
LoadMessage(st, id, resp) ==
    IF ~IsSome(st.store_id) THEN LoadErr(<<>>, "Store ID not set")
    ELSE
    LET reqs == << [store |-> Unwrap(st.store_id), type |-> "request", get |-> id] >> IN
    IF ~resp.transport_ok THEN LoadErr(reqs, "transport error")
    ELSE IF ~resp.json THEN LoadErr(reqs, "response is not JSON")
    ELSE IF resp.status = Some("ok") /\ IsSome(resp.data_get_value) THEN
        LET value == Unwrap(resp.data_get_value) IN
        IF ~value.array THEN LoadErr(reqs, "Expected byte array")
        ELSE IF ~DecodeEntry(value.bytes).ok THEN LoadErr(reqs, "entry does not decode")
        ELSE [ok |-> TRUE, entry |-> DecodeEntry(value.bytes).entry, err |-> "", reqs |-> reqs]
    ELSE LoadErr(reqs, "Failed to load message from store")

(***************************************************************************)
(* handle_request                                                          *)
(***************************************************************************)
ReplyText(kind, detail) == [kind |-> kind, detail |-> detail]

\* a ChildMessage
ChildMessage(child_id, text, html, parent_id, data_head) ==
    [child_id |-> child_id, text |-> text, html |-> html,
     parent_id |-> parent_id, data_head |-> data_head]

\* Option<String>::unwrap_or_default
UnwrapOrDefault(o) == IF IsSome(o) THEN Unwrap(o) ELSE ""

\* what a handler leaves behind: the State it returns (None if it returns
\* none), the file resource, and what it did on the way
Outcome(newState, r, reqs, ld, calls, cmds, res, rep) ==
    [state |-> newState, fs |-> r, storeReqs |-> reqs, loaded |-> ld, fsCalls |-> calls,
     commands |-> cmds, results |-> res, reply |-> rep]

\* Some("introduction") => ...
IntroductionFirstWins(cur, r, req) ==
    IF req.has_data /\ IsSome(req.child_id) /\ IsSome(req.store_id)
    THEN LET bound == IF IsSome(cur.child_id) THEN cur
                      ELSE [cur EXCEPT !.child_id = req.child_id, !.store_id = req.store_id] IN
         Outcome(Some(SerializeState(bound)), r, <<>>, None, <<>>, <<>>, <<>>,
                 Some(ChildMessage(Unwrap(req.child_id),
                                   ReplyText("introduction", <<bound.name, bound.permissions>>),
                                   TRUE, req.head, None)))
    ELSE Outcome(Some(SerializeState(cur)), r, <<>>, None, <<>>, <<>>, <<>>,
                 Some(ChildMessage(UnwrapOrDefault(cur.child_id),
                                   ReplyText("Failed to get child_id or store_id from introduction", <<>>),
                                   TRUE, None, None)))

IntroductionBindsIdentityOnly(cur, r, req) ==
    IF req.has_data /\ IsSome(req.child_id) /\ IsSome(req.store_id)
    THEN LET bound == [cur EXCEPT !.child_id = req.child_id] IN
         Outcome(Some(SerializeState(bound)), r, <<>>, None, <<>>, <<>>, <<>>,
                 Some(ChildMessage(Unwrap(req.child_id),
                                   ReplyText("introduction", <<bound.name, bound.permissions>>),
                                   TRUE, req.head, None)))
    ELSE Outcome(Some(SerializeState(cur)), r, <<>>, None, <<>>, <<>>, <<>>,
                 Some(ChildMessage(UnwrapOrDefault(cur.child_id),
                                   ReplyText("Failed to get child_id or store_id from introduction", <<>>),
                                   TRUE, None, None)))

IntroductionBindsPartial(cur, r, req) ==
    IF req.has_data /\ IsSome(req.child_id) /\ IsSome(req.store_id)
    THEN LET bound == [cur EXCEPT !.child_id = req.child_id, !.store_id = req.store_id] IN
         Outcome(Some(SerializeState(bound)), r, <<>>, None, <<>>, <<>>, <<>>,
                 Some(ChildMessage(Unwrap(req.child_id),
                                   ReplyText("introduction", <<bound.name, bound.permissions>>),
                                   TRUE, req.head, None)))
    ELSE LET partial == [cur EXCEPT !.child_id = IF IsSome(req.child_id) THEN req.child_id ELSE @,
                                    !.store_id = IF IsSome(req.store_id) THEN req.store_id ELSE @] IN
         Outcome(Some(SerializeState(partial)), r, <<>>, None, <<>>, <<>>, <<>>,
                 Some(ChildMessage(UnwrapOrDefault(cur.child_id),
                                   ReplyText("Failed to get child_id or store_id from introduction", <<>>),
                                   TRUE, None, None)))

IntroductionGrantsAll(cur, r, req) ==
    IF req.has_data /\ IsSome(req.child_id) /\ IsSome(req.store_id)
    THEN LET bound == [cur EXCEPT !.child_id = req.child_id, !.store_id = req.store_id,
                                  !.permissions = <<"read", "write">>] IN
         Outcome(Some(SerializeState(bound)), r, <<>>, None, <<>>, <<>>, <<>>,
                 Some(ChildMessage(Unwrap(req.child_id),
                                   ReplyText("introduction", <<bound.name, bound.permissions>>),
                                   TRUE, req.head, None)))
    ELSE Outcome(Some(SerializeState(cur)), r, <<>>, None, <<>>, <<>>, <<>>,
                 Some(ChildMessage(UnwrapOrDefault(cur.child_id),
                                   ReplyText("Failed to get child_id or store_id from introduction", <<>>),
                                   TRUE, None, None)))

Introduction(cur, r, req) ==
    IF req.has_data /\ IsSome(req.child_id) /\ IsSome(req.store_id)
    THEN LET bound == [cur EXCEPT !.child_id = req.child_id, !.store_id = req.store_id] IN
         Outcome(Some(SerializeState(bound)), r, <<>>, None, <<>>, <<>>, <<>>,
                 Some(ChildMessage(Unwrap(req.child_id),
                                   ReplyText("introduction", <<bound.name, bound.permissions>>),
                                   TRUE, req.head, None)))
    ELSE Outcome(Some(SerializeState(cur)), r, <<>>, None, <<>>, <<>>, <<>>,
                 Some(ChildMessage(UnwrapOrDefault(cur.child_id),
                                   ReplyText("Failed to get child_id or store_id from introduction", <<>>),
                                   TRUE, None, None)))

RECURSIVE Concat(_)
Concat(texts) == IF texts = <<>> THEN <<>> ELSE Head(texts) \o Concat(Tail(texts))

TextToScanRollupToo(data) ==
    IF data.tag = "Chat" THEN Some(data.texts[1]) ELSE Some(Concat(data.texts))

\* match entry.data: the content of a Chat message is scanned for commands,
\* a ChildRollup is skipped
TextToScan(data) ==
    IF data.tag = "Chat" THEN Some(data.texts[1]) ELSE None

\* the reply at the end of the head-update arm
EmptyReply(cur, r, req, reqs, ld) ==
    Outcome(Some(SerializeState(cur)), r, reqs, ld, <<>>, <<>>, <<>>,
            Some(ChildMessage(UnwrapOrDefault(cur.child_id), ReplyText("", <<>>),
                              FALSE, req.head, None)))

\* the handler faults: it returns neither a State nor a reply
Fault(r, reqs, ld) == Outcome(None, r, reqs, ld, <<>>, <<>>, <<>>, None)

HeadUpdateUnchecked(cur, r, req, resp) ==
    IF IsSome(req.head) THEN
        LET head == Unwrap(req.head)
            load == LoadMessage(cur, head, resp)
        IN
        IF load.ok THEN
            LET text == TextToScan(load.entry.data) IN
            IF IsSome(text) THEN
                LET ext == ExtractFsCommands(Unwrap(text), cur.name) IN
                IF ext.fault THEN Fault(r, load.reqs, Some(load.entry))
                ELSE IF ext.cmds # <<>> THEN
                    LET run == ProcessFsCommands(cur, r, ext.cmds) IN
                    Outcome(Some(SerializeState(cur)), run.fs, load.reqs, Some(load.entry), run.calls,
                            ext.cmds, run.results,
                            Some(ChildMessage(UnwrapOrDefault(cur.child_id),
                                              ReplyText("results", run.results),
                                              TRUE, Some(head), Some(head))))
                ELSE EmptyReply(cur, r, req, load.reqs, Some(load.entry))
            ELSE EmptyReply(cur, r, req, load.reqs, Some(load.entry))
        ELSE Outcome(Some(SerializeState(cur)), r, load.reqs, None, <<>>, <<>>, <<>>,
                     Some(ChildMessage(UnwrapOrDefault(cur.child_id),
                                       ReplyText("Failed to load message", load.err),
                                       TRUE, Some(head), Some(head))))
    ELSE EmptyReply(cur, r, req, <<>>, None)

\* Some("head-update") => ..., resp being the store's response if asked
HeadUpdate(cur, r, req, resp) ==
    IF IsSome(cur.child_id) /\ IsSome(req.head) THEN
        LET head == Unwrap(req.head)
            load == LoadMessage(cur, head, resp)
        IN
        IF load.ok THEN
            LET text == TextToScan(load.entry.data) IN
            IF IsSome(text) THEN
                LET ext == ExtractFsCommands(Unwrap(text), cur.name) IN
                IF ext.fault THEN Fault(r, load.reqs, Some(load.entry))
                ELSE IF ext.cmds # <<>> THEN
                    LET run == ProcessFsCommands(cur, r, ext.cmds) IN
                    Outcome(Some(SerializeState(cur)), run.fs, load.reqs, Some(load.entry), run.calls,
                            ext.cmds, run.results,
                            Some(ChildMessage(Unwrap(cur.child_id),
                                              ReplyText("results", run.results),
                                              TRUE, Some(head), Some(head))))
                ELSE EmptyReply(cur, r, req, load.reqs, Some(load.entry))
            ELSE EmptyReply(cur, r, req, load.reqs, Some(load.entry))
        ELSE Outcome(Some(SerializeState(cur)), r, load.reqs, None, <<>>, <<>>, <<>>,
                     Some(ChildMessage(Unwrap(cur.child_id),
                                       ReplyText("Failed to load message", load.err),
                                       TRUE, Some(head), Some(head))))
    ELSE EmptyReply(cur, r, req, <<>>, None)

UnknownTypeUnbinds(cur, r, req) ==
    Outcome(Some(SerializeState([cur EXCEPT !.child_id = None, !.store_id = None])),
            r, <<>>, None, <<>>, <<>>, <<>>,
            Some(ChildMessage(UnwrapOrDefault(cur.child_id),
                              ReplyText("Unknown message type", Unwrap(req.msg_type)),
                              TRUE, req.head, None)))

\* Some(other) => ...
UnknownType(cur, r, req) ==
    Outcome(Some(SerializeState(cur)), r, <<>>, None, <<>>, <<>>, <<>>,
            Some(ChildMessage(UnwrapOrDefault(cur.child_id),
                              ReplyText("Unknown message type", Unwrap(req.msg_type)),
                              TRUE, req.head, None)))

\* None => ...
NoType(cur, r, req) ==
    Outcome(Some(SerializeState(cur)), r, <<>>, None, <<>>, <<>>, <<>>,
            Some(ChildMessage(UnwrapOrDefault(cur.child_id),
                              ReplyText("No message type provided", <<>>),
                              TRUE, req.head, None)))

\* Component::handle_request(state, (msg,)): state.unwrap() faults on an absent
\* state and serde_json::from_slice(&msg).unwrap() on message bytes that are
\* not JSON (req.json = FALSE)
HandleRequest(bytes, r, req, resp) ==
    IF ~IsSome(bytes) THEN Fault(r, <<>>, None)
    ELSE IF ~req.json THEN Fault(r, <<>>, None)
    ELSE
    LET current_state == DeserializeState(Unwrap(bytes)) IN
    IF req.msg_type = Some("introduction") THEN Introduction(current_state, r, req)
    ELSE IF req.msg_type = Some("head-update") THEN HeadUpdate(current_state, r, req, resp)
    ELSE IF IsSome(req.msg_type) THEN UnknownType(current_state, r, req)
    ELSE NoType(current_state, r, req)

(***************************************************************************)
(* Rendering of command blocks into text (the markup of the introduction   *)
(* text, lines 394-430)                                                    *)
(***************************************************************************)
FieldText(open, val, close) == <<open>> \o val \o <<close>>

OptFieldText(open, o, close) == IF IsSome(o) THEN FieldText(open, Unwrap(o), close) ELSE <<>>

RenderCmd(opener, cmd) ==
    <<opener>>
    \o FieldText("<operation>", cmd.operation, "</operation>")
    \o FieldText("<path>", cmd.path, "</path>")
    \o OptFieldText("<content>", cmd.content, "</content>")
    \o OptFieldText("<old_text>", cmd.old_text, "</old_text>")
    \o OptFieldText("<new_text>", cmd.new_text, "</new_text>")
    \o <<EndMarker>>

RECURSIVE RenderBatch(_, _)
RenderBatch(name, cmds) ==
    IF cmds = <<>> THEN <<"ok">>
    ELSE <<"run">> \o RenderCmd(Marker(name), Head(cmds)) \o RenderBatch(name, Tail(cmds))

Cmd(op, path, content, old_text, new_text) ==
    [operation |-> <<op>>, path |-> path, content |-> content,
     old_text |-> old_text, new_text |-> new_text]

(***************************************************************************)
(* Inputs of the requests                                                  *)
(***************************************************************************)
SeqsUpTo(S, n) == UNION {[1..k -> S] : k \in 0..n}

ListCmd == Cmd("list-files", <<".">>, None, None, None)

CmdPool ==
    { ListCmd,
      Cmd("read-file", <<"f">>, None, None, None),
      Cmd("write-file", <<"f">>, Some(<<"x">>), None, None),
      Cmd("edit-file", <<"f">>, None, Some(<<"x">>), Some(<<"y">>)),
      Cmd("create-dir", <<"d">>, None, None, None),
      Cmd("delete-file", <<"f">>, None, None, None),
      Cmd("chmod", <<"f">>, None, None, None) }

FileCmds ==
    { Cmd("read-file", <<"f">>, None, None, None),
      Cmd("write-file", <<"f">>, Some(<<"x">>), None, None),
      Cmd("edit-file", <<"f">>, None, Some(<<"x">>), Some(<<"y">>)),
      Cmd("delete-file", <<"f">>, None, None, None) }

\* commands that lack the payload of their operation
IncompleteCmds ==
    { Cmd("write-file", <<"f">>, None, None, None),
      Cmd("edit-file", <<"f">>, None, Some(<<"x">>), None) }

\* Scenario A of the specification: a block opened by the bare marker
ScenarioAText == RenderCmd(BareMarker, ListCmd)

NamedScenarioAText(name) == RenderCmd(Marker(name), ListCmd)

\* a block whose </operation> comes before its <operation>
ReversedText ==
    <<Marker("default"), "</operation>", "list-files", "<operation>",
      "<path>", ".", "</path>", EndMarker>>

\* every command alone, and every batch of up to MaxCmds commands on the file f
ChatTexts ==
    {RenderBatch("default", <<c>>) : c \in CmdPool \cup IncompleteCmds}
    \cup {RenderBatch("default", b) : b \in SeqsUpTo(FileCmds, MaxCmds)}
    \cup {ScenarioAText, NamedScenarioAText("default"), NamedScenarioAText("a"),
          RenderBatch("a", <<Cmd("write-file", <<"f">>, Some(<<"y">>), None, None)>>),
          ReversedText}

ChatEntry(text) ==
    [parent |-> None, id |-> Some("h1"), data |-> [tag |-> "Chat", texts |-> <<text>>]]

RollupEntry ==
    [parent |-> Some("h0"), id |-> Some("h1"),
     data |-> [tag |-> "ChildRollup",
               texts |-> << NamedScenarioAText("default"),
                            RenderBatch("default", <<Cmd("write-file", <<"f">>, Some(<<"x">>), None, None)>>),
                            NamedScenarioAText("a") >>]]

EntryBytes(e) == [chain_entry |-> TRUE, entry |-> e]
GarbageBytes == [chain_entry |-> FALSE, entry |-> NoEntry]
ByteArray(b) == [array |-> TRUE, bytes |-> b]
NotAnArray == [array |-> FALSE, bytes |-> GarbageBytes]

Response(transport_ok, json, status, value, data_get_value) ==
    [transport_ok |-> transport_ok, json |-> json, status |-> status,
     value |-> value, data_get_value |-> data_get_value]

\* the newer envelope: {"status": "ok", "data": {"Get": {"value": [...]}}}
NestedResponse(e) == Response(TRUE, TRUE, Some("ok"), None, Some(ByteArray(EntryBytes(e))))

\* the older envelope: {"status": "ok", "value": [...]}
TopLevelResponse(e) == Response(TRUE, TRUE, Some("ok"), Some(ByteArray(EntryBytes(e))), None)

ProbeEntry == ChatEntry(RenderBatch("default", <<Cmd("write-file", <<"f">>, Some(<<"x">>), None, None)>>))

StoreResponses ==
    {NestedResponse(ChatEntry(t)) : t \in ChatTexts}
    \cup { NestedResponse(RollupEntry),
           TopLevelResponse(ProbeEntry),
           Response(FALSE, FALSE, None, None, None),
           Response(TRUE, FALSE, None, None, None),
           Response(TRUE, TRUE, Some("error"), None, Some(ByteArray(EntryBytes(ProbeEntry)))),
           Response(TRUE, TRUE, None, None, Some(ByteArray(EntryBytes(ProbeEntry)))),
           Response(TRUE, TRUE, Some("ok"), None, None),
           Response(TRUE, TRUE, Some("ok"), None, Some(NotAnArray)),
           Response(TRUE, TRUE, Some("ok"), None, Some(ByteArray(GarbageBytes))) }

Req(msg_type, has_data, child_id, store_id, head) ==
    [via |-> "handle_request", json |-> TRUE, msg_type |-> msg_type, has_data |-> has_data,
     child_id |-> child_id, store_id |-> store_id, head |-> head]

IdPairs ==
    { <<None, None>>, <<Some("c1"), None>>, <<None, Some("s1")>>,
      <<Some("c1"), Some("s1")>>, <<Some("c2"), Some("s2")>> }

IntroRequests ==
    {Req(Some("introduction"), FALSE, None, None, None)}
    \cup {Req(Some("introduction"), TRUE, ids[1], ids[2], None) : ids \in IdPairs}

HeadRequest == Req(Some("head-update"), TRUE, None, None, Some("h1"))

HeadlessRequest == Req(Some("head-update"), FALSE, None, None, None)

OtherRequests == {Req(Some("ping"), TRUE, None, None, h) : h \in {None, Some("h1")}}

NoTypeRequests == {Req(None, has_data, None, None, None) : has_data \in BOOLEAN}

\* message bytes that are not JSON: nothing can be read from them
InvalidRequests == {[Req(None, FALSE, None, None, None) EXCEPT !.json = FALSE]}

NoRequest == [via |-> "init", json |-> TRUE, msg_type |-> None, has_data |-> FALSE,
              child_id |-> None, store_id |-> None, head |-> None]

SendRequest == [via |-> "handle_send", json |-> TRUE, msg_type |-> None, has_data |-> FALSE,
                child_id |-> None, store_id |-> None, head |-> None]

Config(name, base_path, permissions) ==
    [json |-> TRUE, name |-> name, base_path |-> base_path, permissions |-> permissions]

PermissionArrays ==
    { None, Some(<<>>), Some(<<Some("read")>>), Some(<<Some("write")>>),
      Some(<<None, Some("write"), Some("read")>>) }

InitDatas ==
    { None, Some([json |-> FALSE, name |-> None, base_path |-> None, permissions |-> None]) }
    \cup {Some(Config(None, None, perms)) : perms \in PermissionArrays}
    \cup {Some(Config(Some("a"), Some(<<".">>), None))}

InitialFs ==
    [files |-> (<<".", "/", "f">> :> [utf8 |-> TRUE, text |-> <<"x", "y", "x">>]),
     dirs |-> {<<".", "/", ".">>}]

(***************************************************************************)
(* The actor: init, handle_request, handle_send                            *)
(***************************************************************************)
HarnessIdle == xBlocks = <<>> /\ xName = "" /\ xResult = None

\* Component::init
Init ==
    /\ \E init_data \in InitDatas : state = Some(SerializeState(StateNew(init_data)))
    /\ fs = InitialFs
    /\ received = DefaultState
    /\ fsBefore = InitialFs
    /\ lastReq = NoRequest
    /\ lastResp = None
    /\ storeReqs = <<>>
    /\ loaded = None
    /\ fsCalls = <<>>
    /\ commands = <<>>
    /\ results = <<>>
    /\ reply = None
    /\ HarnessIdle

\* the host delivers req to handle_request; the store answers resp if asked
Deliver(req, resp) ==
    \E out \in {HandleRequest(state, fs, req, resp)} :
    /\ state' = IF IsSome(out.state) THEN out.state ELSE state
    /\ fs' = out.fs
    /\ received' = DeserializeState(Unwrap(state))
    /\ fsBefore' = fs
    /\ lastReq' = req
    /\ lastResp' = IF out.storeReqs # <<>> THEN Some(resp) ELSE None
    /\ storeReqs' = out.storeReqs
    /\ loaded' = out.loaded
    /\ fsCalls' = out.fsCalls
    /\ commands' = out.commands
    /\ results' = out.results
    /\ reply' = out.reply
    /\ UNCHANGED <<xBlocks, xName, xResult>>

\* the store is not asked
NoResponse == Response(FALSE, FALSE, None, None, None)

RecvIntroduction == \E req \in IntroRequests : Deliver(req, NoResponse)

RecvHeadUpdate ==
    \/ \E resp \in StoreResponses : Deliver(HeadRequest, resp)
    \/ Deliver(HeadlessRequest, NoResponse)

RecvUnknownType == \E req \in OtherRequests : Deliver(req, NoResponse)

RecvNoType == \E req \in NoTypeRequests : Deliver(req, NoResponse)

RecvInvalidBytes == \E req \in InvalidRequests : Deliver(req, NoResponse)

\* Component::handle_send: Ok((state,))
HandleSend ==
    /\ state' = state
    /\ lastReq' = SendRequest
    /\ received' = received
    /\ fsBefore' = fs
    /\ lastResp' = None
    /\ storeReqs' = <<>>
    /\ loaded' = None
    /\ fsCalls' = <<>>
    /\ commands' = <<>>
    /\ results' = <<>>
    /\ reply' = None
    /\ UNCHANGED <<fs, xBlocks, xName, xResult>>

Next ==
    \/ RecvIntroduction
    \/ RecvHeadUpdate
    \/ RecvUnknownType
    \/ RecvNoType
    \/ RecvInvalidBytes
    \/ HandleSend

Spec == Init /\ [][Next]_vars

(***************************************************************************)
(* extract_fs_commands on its own: the input text is made of blocks, each  *)
(* described by its opening marker, the layout of its fields and whether   *)
(* it is closed.  Block i carries values of its own ("p1", "c1", ...), so  *)
(* a returned field tells which block it was read from.                    *)
(***************************************************************************)
Names == {"a", "b"}

Openers == Names \cup {"bare"}

\* layouts with both an operation and a path, each marker pair in order
WellFormedShapes == {"op_path", "path_op", "op_path_content", "op_path_old_new"}

\* layouts that lack the operation, the path or both
IncompleteShapes == {"none", "op", "path", "path_content"}

\* layouts in which a closing marker comes before its opening marker
ReversedShapes == {"oprev_path", "op_pathrev"}

\* layouts in which the marker pair of a field occurs twice, the second
\* pair holding a value of its own
RepeatedShapes == {"op_op_path", "op_path_path", "path_op_path_content_content",
                   "op_path_old_new_new_old"}

Val(letter, i) == <<letter \o ToString(i)>>

OpField(i) == FieldText("<operation>", <<"list-files">>, "</operation>")
PathField(i) == FieldText("<path>", Val("p", i), "</path>")
ContentField(i) == FieldText("<content>", Val("c", i), "</content>")
OldField(i) == FieldText("<old_text>", Val("o", i), "</old_text>")
NewField(i) == FieldText("<new_text>", Val("n", i), "</new_text>")

ShapeText(shape, i) ==
    CASE shape = "none" -> <<"hello">>
      [] shape = "op" -> OpField(i)
      [] shape = "path" -> PathField(i)
      [] shape = "path_content" -> PathField(i) \o ContentField(i)
      [] shape = "op_path" -> OpField(i) \o <<"nl">> \o PathField(i)
      [] shape = "path_op" -> PathField(i) \o OpField(i)
      [] shape = "op_path_content" -> OpField(i) \o PathField(i) \o ContentField(i)
      [] shape = "op_path_old_new" -> OpField(i) \o PathField(i) \o OldField(i) \o NewField(i)
      [] shape = "op_op_path" ->
            OpField(i) \o FieldText("<operation>", <<"delete-file">>, "</operation>")
            \o PathField(i)
      [] shape = "op_path_path" ->
            OpField(i) \o PathField(i) \o <<"nl">> \o FieldText("<path>", Val("q", i), "</path>")
      [] shape = "path_op_path_content_content" ->
            PathField(i) \o OpField(i) \o FieldText("<path>", Val("q", i), "</path>")
            \o ContentField(i) \o FieldText("<content>", Val("d", i), "</content>")
      [] shape = "op_path_old_new_new_old" ->
            OpField(i) \o PathField(i) \o OldField(i) \o NewField(i)
            \o FieldText("<new_text>", Val("m", i), "</new_text>")
            \o FieldText("<old_text>", Val("r", i), "</old_text>")
      [] shape = "oprev_path" ->
            <<"</operation>", "list-files", "<operation>">> \o PathField(i)
      [] shape = "op_pathrev" ->
            OpField(i) \o <<"</path>">> \o Val("p", i) \o <<"<path>">>

\* the command a well-formed block i spells out
BlockCmd(b, i) ==
    [operation |-> <<"list-files">>,
     path      |-> Val("p", i),
     content   |-> IF b.shape = "op_path_content" THEN Some(Val("c", i)) ELSE None,
     old_text  |-> IF b.shape = "op_path_old_new" THEN Some(Val("o", i)) ELSE None,
     new_text  |-> IF b.shape = "op_path_old_new" THEN Some(Val("n", i)) ELSE None]

OpenerText(opener) == IF opener = "bare" THEN BareMarker ELSE Marker(opener)

BlockText(b, i) ==
    <<OpenerText(b.opener)>> \o ShapeText(b.shape, i)
    \o (IF b.closed THEN <<EndMarker>> ELSE <<>>)

RECURSIVE BlocksTextFrom(_, _)
BlocksTextFrom(blocks, i) ==
    IF i > Len(blocks) THEN <<"bye">>
    ELSE <<"say">> \o BlockText(blocks[i], i) \o BlocksTextFrom(blocks, i + 1)

BlocksText(blocks) == BlocksTextFrom(blocks, 1)

Block(opener, shape, closed) == [opener |-> opener, shape |-> shape, closed |-> closed]

\* any opener, closed or not, a few layouts
AnyBlocks ==
    {Block(o, sh, cl) : o \in Openers,
                        sh \in {"none", "path", "op_path"} \cup ReversedShapes,
                        cl \in BOOLEAN}

\* closed blocks of one instance, well-formed or incomplete
SiblingBlocks(name) ==
    {Block(name, sh, TRUE) : sh \in WellFormedShapes \cup IncompleteShapes}

\* closed blocks of one instance in which a field's pair occurs twice, and
\* one plain block to go with them
RepeatBlocks(name) ==
    {Block(name, sh, TRUE) : sh \in RepeatedShapes \cup {"op_path"}}

ExtractInit ==
    /\ xName \in Names
    /\ xBlocks \in SeqsUpTo(AnyBlocks, MaxBlocks) \cup SeqsUpTo(SiblingBlocks(xName), MaxSiblings)
                   \cup SeqsUpTo(RepeatBlocks(xName), MaxBlocks)
    /\ xResult = None
    /\ state = Some(SerializeState(DefaultState))
    /\ fs = InitialFs
    /\ received = DefaultState
    /\ fsBefore = InitialFs
    /\ lastReq = NoRequest
    /\ lastResp = None
    /\ storeReqs = <<>>
    /\ loaded = None
    /\ fsCalls = <<>>
    /\ commands = <<>>
    /\ results = <<>>
    /\ reply = None

\* State::extract_fs_commands(text, name) is called
Extract ==
    /\ xResult = None
    /\ xResult' = Some(ExtractFsCommands(BlocksText(xBlocks), xName))
    /\ UNCHANGED <<state, fs, received, fsBefore, lastReq, lastResp, storeReqs, loaded,
                   fsCalls, commands, results, reply, xBlocks, xName>>

SpecExtract == ExtractInit /\ [][Extract]_vars

(***************************************************************************)
(* process_fs_commands on its own: a session with some permission set runs *)
(* a batch of commands against a file resource that holds a text file f, a *)
(* file b whose bytes are not UTF-8 and a directory d; no file g exists.   *)
(***************************************************************************)
MaxBatch == 3

ExecPermissions == {<<>>, <<"read">>, <<"write">>, <<"read", "write">>}

ExecContents == {<<"x", "y", "x">>, <<"x", "y", "y">>}

ExecFs(content) ==
    [files |-> (<<".", "/", "f">> :> [utf8 |-> TRUE, text |-> content])
               @@ (<<".", "/", "b">> :> [utf8 |-> FALSE, text |-> <<"?">>]),
     dirs |-> {<<".", "/", ".">>, <<".", "/", "d">>}]

Edit(path, old_text, new_text) == Cmd("edit-file", path, None, old_text, new_text)

\* (old_text, new_text): plain, new_text containing old_text, equal texts,
\* empty old_text, a replacement that forms old_text anew, absent old_text,
\* empty new_text, an old_text that only one of the contents holds
EditPairs ==
    { <<<<"x">>, <<"y">>>>, <<<<"x">>, <<"x", "x">>>>, <<<<"y">>, <<"y">>>>,
      <<<<>>, <<"z">>>>, <<<<"x", "y">>, <<"x">>>>, <<<<"z">>, <<"y">>>>,
      <<<<"y">>, <<>>>>, <<<<"y", "y">>, <<"z">>>> }

EditCmds ==
    {Edit(<<"f">>, Some(pair[1]), Some(pair[2])) : pair \in EditPairs}
    \cup {Edit(path, Some(<<"x">>), Some(<<"y">>)) : path \in {<<"g">>, <<"b">>, <<"d">>}}

\* edit-file lacking old_text, new_text or both
IncompleteEdits ==
    { Edit(<<"f">>, Some(<<"x">>), None), Edit(<<"f">>, None, Some(<<"y">>)),
      Edit(<<"f">>, None, None) }

\* the commands of the longer batches: a write, a command no permission set
\* allows, an edit of what the write wrote, a write without content, a read
\* the resource refuses and a read of bytes that do not decode
CoreCmds ==
    { Cmd("write-file", <<"f">>, Some(<<"z">>), None, None),
      Cmd("chmod", <<"f">>, None, None, None),
      Edit(<<"f">>, Some(<<"z">>), Some(<<"y">>)),
      Cmd("write-file", <<"f">>, None, None, None),
      Cmd("read-file", <<"g">>, None, None, None),
      Cmd("read-file", <<"b">>, None, None, None) }

OtherCmds ==
    { Cmd("read-file", <<"f">>, None, None, None),
      Cmd("write-file", <<"d">>, Some(<<"x">>), None, None),
      Cmd("write-file", <<"g">>, Some(<<>>), None, None),
      Cmd("list-files", <<".">>, None, None, None),
      Cmd("list-files", <<"g">>, None, None, None),
      Cmd("create-dir", <<"e">>, None, None, None),
      Cmd("create-dir", <<"d">>, None, None, None),
      Cmd("delete-file", <<"f">>, None, None, None),
      Cmd("delete-file", <<"g">>, None, None, None) }

\* every command alone, every edit twice in a row, and every batch of up to
\* MaxBatch of the core commands
ExecBatches ==
    {<<c>> : c \in EditCmds \cup IncompleteEdits \cup OtherCmds}
    \cup {<<c, c>> : c \in EditCmds}
    \cup SeqsUpTo(CoreCmds, MaxBatch)

ExecRequest == [via |-> "process_fs_commands", json |-> TRUE, msg_type |-> None,
                has_data |-> FALSE, child_id |-> None, store_id |-> None, head |-> None]

ExecInit ==
    /\ \E perms \in ExecPermissions : received = [DefaultState EXCEPT !.permissions = perms]
    /\ state = Some(SerializeState(received))
    /\ \E content \in ExecContents : fs = ExecFs(content)
    /\ fsBefore = fs
    /\ commands \in ExecBatches
    /\ lastReq = NoRequest
    /\ lastResp = None
    /\ storeReqs = <<>>
    /\ loaded = None
    /\ fsCalls = <<>>
    /\ results = <<>>
    /\ reply = None
    /\ HarnessIdle

\* State::process_fs_commands(&self, commands) is called
Execute ==
    /\ lastReq = NoRequest
    /\ \E run \in {ProcessFsCommands(received, fs, commands)} :
          /\ fs' = run.fs
          /\ fsCalls' = run.calls
          /\ results' = run.results
    /\ lastReq' = ExecRequest
    /\ UNCHANGED <<state, received, fsBefore, lastResp, storeReqs, loaded, commands, reply,
                   xBlocks, xName, xResult>>

SpecExec == ExecInit /\ [][Execute]_vars

(***************************************************************************)
(* Properties                                                              *)
(***************************************************************************)
\* the State the host holds now
Cur == DeserializeState(Unwrap(state))

\* the last step was a call of handle_request
Handled == lastReq.via = "handle_request"

\* the last handler asked the store and got lastResp
AskedStore == Handled /\ IsSome(lastResp)

ReadOps == {<<"read-file">>, <<"list-files">>}
WriteOps == {<<"write-file">>, <<"edit-file">>, <<"create-dir">>, <<"delete-file">>}
FileResourceCalls == {"read_file", "write_file", "list_files", "create_dir", "delete_file"}

PermissionSet(vec) == {vec[i] : i \in 1..Len(vec)}

\* the fixed table of the permission gate
TableAllows(operation, perms) ==
    \/ operation \in ReadOps /\ "read" \in perms
    \/ operation \in WriteOps /\ "write" \in perms

\* C1: every file-resource call made by a handler is made for a command whose
\* required capability is in the session's permission set, and every command
\* whose capability is missing gets a "not permitted" result.
C1_NoCallWithoutCapability ==
    /\ \A k \in 1..Len(fsCalls) :
          /\ fsCalls[k].fn \in FileResourceCalls
          /\ TableAllows(fsCalls[k].operation, PermissionSet(received.permissions))
    /\ \A i \in 1..Len(commands) :
          ~TableAllows(commands[i].operation, PermissionSet(received.permissions))
             => /\ i <= Len(results)
                /\ results[i].kind = "not permitted"
                /\ \A k \in 1..Len(fsCalls) : fsCalls[k].operation # commands[i].operation

\* C1 witness: a batch in which one command was denied and another reached
\* the file resource
C1_Witness ==
    /\ Handled
    /\ \E i \in 1..Len(results) : results[i].kind = "not permitted"
    /\ fsCalls # <<>>

\* C2: a command is allowed exactly when the fixed table allows its operation
\* under the session's permission set; an operation outside the six is denied
\* under every permission set and the empty set denies every operation.
C2_DecisionIsTheTable ==
    Handled =>
        /\ Len(results) = Len(commands)
        /\ \A i \in 1..Len(commands) :
              /\ (results[i].kind # "not permitted")
                    <=> TableAllows(commands[i].operation, PermissionSet(received.permissions))
              /\ commands[i].operation \notin (ReadOps \cup WriteOps)
                    => results[i].kind = "not permitted"
              /\ received.permissions = <<>> => results[i].kind = "not permitted"

\* C2 witness: an unknown operation denied although the session holds both
\* capabilities
C2_Witness ==
    /\ Handled
    /\ PermissionSet(received.permissions) = {"read", "write"}
    /\ \E i \in 1..Len(commands) :
          commands[i].operation = <<"chmod">> /\ results[i].kind = "not permitted"

IsIntroductionWithBoth(req) ==
    /\ req.msg_type = Some("introduction")
    /\ req.has_data /\ IsSome(req.child_id) /\ IsSome(req.store_id)

\* C3 (as claimed): once child_id and store_id are bound, no later request
\* changes either field.
C3_FirstBindingWins ==
    Handled /\ IsSome(received.child_id) /\ IsSome(received.store_id)
        => Cur.child_id = received.child_id /\ Cur.store_id = received.store_id

\* C3 (amended): an introduction carrying both an identity and a store handle
\* binds both fields to the values it carries, also when they were bound
\* before; every other request leaves both fields as they were.
C3_LastBindingWins ==
    Handled =>
        IF IsIntroductionWithBoth(lastReq)
        THEN Cur.child_id = lastReq.child_id /\ Cur.store_id = lastReq.store_id
        ELSE Cur.child_id = received.child_id /\ Cur.store_id = received.store_id

\* C3 witness: a second introduction rebinds a bound session
C3_Witness ==
    /\ Handled
    /\ IsIntroductionWithBoth(lastReq)
    /\ IsSome(received.child_id)
    /\ received.child_id # lastReq.child_id
    /\ Cur.child_id = lastReq.child_id
    /\ Cur.store_id = lastReq.store_id

\* C4: every command extract_fs_commands(text, N) returns is the command
\* spelt out by a block whose own opening marker carries name N.
C4_ScopedExtractionIsolates ==
    IsSome(xResult) =>
        \A k \in 1..Len(Unwrap(xResult).cmds) :
            \E i \in 1..Len(xBlocks) :
                /\ xBlocks[i].opener = xName
                /\ Unwrap(xResult).cmds[k] = BlockCmd(xBlocks[i], i)

\* C5: extract_fs_commands never faults, whatever the text.
C5_ExtractionNeverFaults ==
    IsSome(xResult) => ~Unwrap(xResult).fault

IsSiblingInput == \A i \in 1..Len(xBlocks) : xBlocks[i] \in SiblingBlocks(xName)

RECURSIVE ExpectedFrom(_, _)
ExpectedFrom(blocks, i) ==
    IF i > Len(blocks) THEN <<>>
    ELSE (IF blocks[i].shape \in WellFormedShapes THEN <<BlockCmd(blocks[i], i)>> ELSE <<>>)
         \o ExpectedFrom(blocks, i + 1)

\* C7: for a text of well-formed blocks of the instance interleaved with
\* blocks that lack an operation or a path, extraction returns exactly the
\* commands of the well-formed blocks, in source order, each with the
\* values between that block's own field markers.
C7_OneCommandPerWellFormedBlock ==
    IsSome(xResult) /\ IsSiblingInput =>
        /\ ~Unwrap(xResult).fault
        /\ Unwrap(xResult).cmds = ExpectedFrom(xBlocks, 1)

\* C7 witness: an incomplete block between two well-formed ones
C7_Witness ==
    /\ IsSome(xResult)
    /\ IsSiblingInput
    /\ Len(xBlocks) = 3
    /\ xBlocks[1].shape = "op_path_old_new"
    /\ xBlocks[2].shape = "path_content"
    /\ xBlocks[3].shape = "path_op"
    /\ Len(Unwrap(xResult).cmds) = 2

\* the session holds both capabilities and the store handed over the text
LoadedText(text) ==
    /\ AskedStore
    /\ lastResp = Some(NestedResponse(ChatEntry(text)))
    /\ PermissionSet(received.permissions) = {"read", "write"}

HasEntryBytes(payload) ==
    IsSome(payload) /\ Unwrap(payload).array /\ Unwrap(payload).bytes.chain_entry

EnvelopeOk(resp) == resp.transport_ok /\ resp.json /\ resp.status = Some("ok")

RoundTripFails(resp) ==
    \/ ~resp.transport_ok
    \/ ~resp.json
    \/ resp.status # Some("ok")
    \/ ~HasEntryBytes(resp.data_get_value)

\* C9: a head-update whose store round trip fails gets one diagnostic reply
\* carrying the failure text, makes no file-resource call and returns the
\* State it received.
C9_StoreFailureIsDiagnosed ==
    AskedStore /\ RoundTripFails(Unwrap(lastResp)) =>
        /\ Len(storeReqs) = 1
        /\ loaded = None
        /\ IsSome(reply)
        /\ Unwrap(reply).text.kind = "Failed to load message"
        /\ Unwrap(reply).text.detail # ""
        /\ Unwrap(reply).child_id = Unwrap(received.child_id)
        /\ commands = <<>> /\ results = <<>> /\ fsCalls = <<>>
        /\ fs = fsBefore
        /\ Cur = received

\* C9 witness: the store answered with status "error"
C9_Witness ==
    /\ AskedStore
    /\ Unwrap(lastResp).status = Some("error")
    /\ HasEntryBytes(Unwrap(lastResp).data_get_value)
    /\ IsSome(reply)
    /\ Unwrap(reply).text.kind = "Failed to load message"

\* C10: a head-update that loads a ChildRollup extracts and runs no command,
\* makes no file-resource call, replies with empty text and returns the
\* State it received, whatever the rollup's child messages contain.
C10_RollupIsSkipped ==
    AskedStore /\ IsSome(loaded) /\ Unwrap(loaded).data.tag = "ChildRollup" =>
        /\ commands = <<>> /\ results = <<>> /\ fsCalls = <<>>
        /\ fs = fsBefore
        /\ IsSome(reply)
        /\ Unwrap(reply).text = ReplyText("", <<>>)
        /\ Cur = received

\* C10 witness: a rollup whose child messages hold well-formed blocks of the
\* session was loaded by a session that may write
C10_Witness ==
    /\ AskedStore
    /\ loaded = Some(RollupEntry)
    /\ received.name = "default"
    /\ Contains(received.permissions, "write")
    /\ IsSome(reply)

\* C11: every call of handle_request, whatever the persisted state and the
\* message bytes, returns a reply together with a State.
C11_EveryRequestIsAnswered ==
    Handled => IsSome(reply)

\* the last step was a call of process_fs_commands on its own
Executed == lastReq.via = "process_fs_commands"

\* C12: process_fs_commands returns exactly one result per command, in input
\* order: the i-th result carries the operation (and path) of the i-th
\* command, whatever mix of denials, missing fields, resource errors, decode
\* errors and successes the batch holds.
C12_OneResultPerCommandInOrder ==
    Executed =>
        /\ Len(results) = Len(commands)
        /\ \A i \in 1..Len(commands) :
              /\ results[i].operation = commands[i].operation
              /\ results[i].path = commands[i].path

\* C12 witness: a batch with a success, a missing field, a denial, a
\* resource error and a decode error among its results
C12_Witness ==
    /\ Executed
    /\ Len(commands) = MaxBatch
    /\ {results[i].kind : i \in 1..Len(results)} \in
          { {"Successfully wrote to file", "not permitted", "Failed to read file"},
            {"No content provided for write operation", "not permitted",
             "Failed to decode file content"} }

\* the command needs no payload or carries the one its operation needs
Complete(cmd) ==
    /\ cmd.operation = <<"write-file">> => IsSome(cmd.content)
    /\ cmd.operation = <<"edit-file">> => IsSome(cmd.old_text) /\ IsSome(cmd.new_text)

Permitted(st, cmd) == TableAllows(cmd.operation, PermissionSet(st.permissions))

\* the file resource after one command: a denied or incomplete command leaves
\* it alone, a permitted and complete one acts on it
ApplyToResource(st, r, cmd) ==
    LET path == ResolvePath(st, cmd.path) IN
    IF ~Permitted(st, cmd) \/ ~Complete(cmd) THEN r
    ELSE IF cmd.operation = <<"write-file">> THEN FsWriteFile(r, path, Unwrap(cmd.content)).fs
    ELSE IF cmd.operation = <<"edit-file">> THEN
        LET rd == FsReadFile(r, path) IN
        IF rd.ok /\ rd.value.utf8 /\ StrContains(rd.value.text, Unwrap(cmd.old_text))
        THEN FsWriteFile(r, path, StrReplace(rd.value.text, Unwrap(cmd.old_text),
                                             Unwrap(cmd.new_text))).fs
        ELSE r
    ELSE IF cmd.operation = <<"create-dir">> THEN FsCreateDir(r, path).fs
    ELSE IF cmd.operation = <<"delete-file">> THEN FsDeleteFile(r, path).fs
    ELSE r

\* the fold of ApplyToResource over the batch, in input order
RECURSIVE FoldBatch(_, _, _)
FoldBatch(st, r, cmds) ==
    IF cmds = <<>> THEN r ELSE FoldBatch(st, ApplyToResource(st, r, Head(cmds)), Tail(cmds))

\* the first call each dispatched command makes (edit-file's write_file is
\* its second call)
FirstCalls ==
    SelectSeq(fsCalls, LAMBDA c : ~(c.operation = <<"edit-file">> /\ c.fn = "write_file"))

\* the commands that are permitted and complete
Dispatched ==
    SelectSeq(commands, LAMBDA c : Permitted(received, c) /\ Complete(c))

\* C13: the file resource after a batch is the fold, in input order, of the
\* permitted and complete commands over the resource as it was before; every
\* permitted and complete command reaches the resource, in input order,
\* whatever was denied or failed before it.
C13_BatchIsSequentialFold ==
    Executed =>
        /\ fs = FoldBatch(received, fsBefore, commands)
        /\ Len(FirstCalls) = Len(Dispatched)
        /\ \A j \in 1..Len(Dispatched) :
              /\ FirstCalls[j].operation = Dispatched[j].operation
              /\ FirstCalls[j].path = ResolvePath(received, Dispatched[j].path)

\* C13 witness: a write, then a denied command, then an edit that sees what
\* the write wrote
C13_Witness ==
    /\ Executed
    /\ commands = << Cmd("write-file", <<"f">>, Some(<<"z">>), None, None),
                     Cmd("chmod", <<"f">>, None, None, None),
                     Edit(<<"f">>, Some(<<"z">>), Some(<<"y">>)) >>
    /\ results[1].kind = "Successfully wrote to file"
    /\ results[2].kind = "not permitted"
    /\ results[3].kind = "Successfully edited file"
    /\ fs.files[<<".", "/", "f">>].text = <<"y">>

\* the permission set, base path and instance name held in persisted bytes
ConfigOf(bytes) ==
    LET st == DeserializeState(Unwrap(bytes)) IN <<st.permissions, st.base_path, st.name>>

\* C14: no step (introduction, head-update with any commands, unknown or
\* missing message type, undecodable message, handle_send) changes the
\* session's permission set, base path or instance name.
C14_ConfigNeverChanges ==
    [][ConfigOf(state') = ConfigOf(state)]_vars

\* C14 witness: a bound session that may only read was sent a write-file
\* command and still may only read
C14_Witness ==
    /\ Handled
    /\ IsSome(Cur.child_id)
    /\ \E i \in 1..Len(commands) : commands[i].operation = <<"write-file">>
    /\ Cur.permissions = <<"read">>
    /\ Cur.base_path = <<".">>
    /\ Cur.name = "default"

\* an introduction that lacks its data, its child_id or its store_id
IsIntroductionLacking(req) ==
    /\ req.json
    /\ req.msg_type = Some("introduction")
    /\ ~(req.has_data /\ IsSome(req.child_id) /\ IsSome(req.store_id))

\* C15: an introduction that lacks the identity, the store handle or both
\* gets the diagnostic reply and the State is returned as received: neither
\* field is bound, even when one of the two was in the message.
C15_LackingIntroductionBindsNothing ==
    Handled /\ IsIntroductionLacking(lastReq) =>
        /\ reply = Some(ChildMessage(UnwrapOrDefault(received.child_id),
                                     ReplyText("Failed to get child_id or store_id from introduction", <<>>),
                                     TRUE, None, None))
        /\ Cur = received
        /\ storeReqs = <<>> /\ fsCalls = <<>> /\ fs = fsBefore

\* C15 witness: an unbound session got an introduction with a child_id and
\* no store_id and stays unbound
C15_Witness ==
    /\ Handled
    /\ IsIntroductionLacking(lastReq)
    /\ IsSome(lastReq.child_id)
    /\ received.child_id = None
    /\ Cur.child_id = None /\ Cur.store_id = None
    /\ IsSome(reply)

\* a decodable message whose msg_type is absent or names no known type
IsUntyped(req) ==
    /\ req.json
    /\ req.msg_type \notin {Some("introduction"), Some("head-update")}

\* C16: a request whose msg_type is absent or is neither 'introduction' nor
\* 'head-update' gets the diagnostic reply ('No message type provided' /
\* 'Unknown message type: <type>'), makes no store request and no
\* file-resource call, and the State is returned as received.
C16_UntypedRequestIsDiagnosed ==
    Handled /\ IsUntyped(lastReq) =>
        /\ IsSome(reply)
        /\ Unwrap(reply).text =
              IF IsSome(lastReq.msg_type)
              THEN ReplyText("Unknown message type", Unwrap(lastReq.msg_type))
              ELSE ReplyText("No message type provided", <<>>)
        /\ Unwrap(reply).child_id = UnwrapOrDefault(received.child_id)
        /\ storeReqs = <<>> /\ loaded = None
        /\ commands = <<>> /\ results = <<>> /\ fsCalls = <<>>
        /\ fs = fsBefore
        /\ Cur = received

\* C16 witness: a bound session got a message of type 'ping' and stays bound
C16_Witness ==
    /\ Handled
    /\ lastReq.msg_type = Some("ping")
    /\ IsSome(received.child_id) /\ IsSome(received.store_id)
    /\ Cur = received
    /\ IsSome(reply)
    /\ Unwrap(reply).text.kind = "Unknown message type"

\* the same complete edit-file command twice in a row, the first application
\* having succeeded
IsRepeatedEdit ==
    /\ Executed
    /\ Len(commands) = 2
    /\ commands[1] = commands[2]
    /\ commands[1].operation = <<"edit-file">>
    /\ results[1].kind = "Successfully edited file"

EditedPath == ResolvePath(received, commands[1].path)

\* the content the first application wrote
AfterFirstEdit ==
    StrReplace(fsBefore.files[EditedPath].text,
               Unwrap(commands[1].old_text), Unwrap(commands[1].new_text))

SharesToken(a, b) == \E i \in 1..Len(a) : \E j \in 1..Len(b) : a[i] = b[j]

\* C17 (as claimed): the second application of a permitted edit-file command
\* that succeeded reports 'Text to replace not found' and does not write, for
\* every content and every pair (old_text, new_text).
C17_SecondEditFindsNothing ==
    IsRepeatedEdit =>
        /\ results[2].kind = "Text to replace not found in"
        /\ Len(fsCalls) = 3
        /\ fs.files[EditedPath].text = AfterFirstEdit

\* C17 (amended): the second application reports 'Text to replace not found'
\* and does not write exactly when the content left by the first application
\* no longer contains old_text, which is the case whenever old_text and
\* new_text are non-empty and share no text; when the content left still
\* contains old_text, as it does whenever new_text contains old_text, the
\* second application succeeds and writes again.
C17_SecondEditFollowsContentLeft ==
    IsRepeatedEdit =>
        LET old_text == Unwrap(commands[1].old_text)
            new_text == Unwrap(commands[1].new_text)
        IN
        /\ ~StrContains(AfterFirstEdit, old_text) =>
              /\ results[2].kind = "Text to replace not found in"
              /\ Len(fsCalls) = 3
              /\ fs.files[EditedPath].text = AfterFirstEdit
        /\ StrContains(AfterFirstEdit, old_text) =>
              /\ results[2].kind = "Successfully edited file"
              /\ Len(fsCalls) = 4
              /\ fsCalls[4].fn = "write_file"
        /\ StrContains(new_text, old_text) => StrContains(AfterFirstEdit, old_text)
        /\ old_text # <<>> /\ new_text # <<>> /\ ~SharesToken(old_text, new_text)
              => ~StrContains(AfterFirstEdit, old_text)

\* C17 witness: x replaced by y, then x is no longer found
C17_Witness ==
    /\ IsRepeatedEdit
    /\ commands[1].old_text = Some(<<"x">>)
    /\ commands[1].new_text = Some(<<"y">>)
    /\ results[2].kind = "Text to replace not found in"
    /\ fs.files[EditedPath].text = <<"y", "y", "y">>

\* pat is a literal substring of s (the empty text is one of every text)
OccursIn(pat, s) ==
    \E i \in 1..(Len(s) - Len(pat) + 1) : \A k \in 1..Len(pat) : s[i + k - 1] = pat[k]

\* the batch starts with a permitted, complete edit-file command on a file
\* that can be read and decoded
FirstIsEditOfText ==
    /\ Executed
    /\ commands # <<>>
    /\ commands[1].operation = <<"edit-file">>
    /\ Permitted(received, commands[1])
    /\ Complete(commands[1])
    /\ EditedPath \in DOMAIN fsBefore.files
    /\ fsBefore.files[EditedPath].utf8

IsEditWrite(c) == c.operation = <<"edit-file">> /\ c.fn = "write_file"

\* C18: a permitted edit-file command whose old_text is not a substring of
\* the file's content reports 'not found' and never calls write_file, so the
\* content stays as it was; in any batch, write_file is called for edit-file
\* exactly as often as an edit reports that it wrote or failed to write.
C18_EditNotFoundWritesNothing ==
    /\ FirstIsEditOfText
       /\ ~OccursIn(Unwrap(commands[1].old_text), fsBefore.files[EditedPath].text)
          => /\ results[1].kind = "Text to replace not found in"
             /\ fsCalls[1] = Call("read_file", EditedPath, commands[1])
             /\ Len(fsCalls) >= 2 => ~IsEditWrite(fsCalls[2])
             /\ Len(commands) = 1 => Len(fsCalls) = 1 /\ fs = fsBefore
    /\ Executed =>
          Len(SelectSeq(fsCalls, IsEditWrite))
            = Len(SelectSeq(results, LAMBDA res :
                     res.kind \in {"Successfully edited file",
                                   "Failed to write edited content to"}))

\* C18 witness: an edit of z in a file that holds no z
C18_Witness ==
    /\ FirstIsEditOfText
    /\ Len(commands) = 1
    /\ commands[1].old_text = Some(<<"z">>)
    /\ results[1].kind = "Text to replace not found in"
    /\ fs = fsBefore

\* C19: a permitted command that lacks the payload of its operation gets the
\* failure message of that operation and makes no file-resource call:
\* write-file without content never calls write_file, edit-file lacking
\* old_text or new_text calls neither read_file nor write_file.
C19_MissingPayloadMakesNoCall ==
    Executed =>
        /\ \A i \in 1..Len(commands) :
              Permitted(received, commands[i]) /\ ~Complete(commands[i]) =>
                  results[i].kind =
                      IF commands[i].operation = <<"write-file">>
                      THEN "No content provided for write operation"
                      ELSE "Both old_text and new_text must be provided for edit operation"
        /\ (\A i \in 1..Len(commands) :
                ~Permitted(received, commands[i]) \/ ~Complete(commands[i]))
              => fsCalls = <<>> /\ fs = fsBefore

\* C19 witness: an edit-file with old_text and no new_text, sent to a session
\* that may write
C19_Witness ==
    /\ Executed
    /\ commands = <<Edit(<<"f">>, Some(<<"x">>), None)>>
    /\ Contains(received.permissions, "write")
    /\ results[1].kind = "Both old_text and new_text must be provided for edit operation"
    /\ fsCalls = <<>>

\* the pieces of s between the occurrences of the non-empty text pat, taken
\* left to right without overlap
RECURSIVE SplitOn(_, _)
SplitOn(s, pat) ==
    LET starts == {i \in 1..(Len(s) - Len(pat) + 1) : SubSeq(s, i, i + Len(pat) - 1) = pat} IN
    IF starts = {} THEN <<s>>
    ELSE LET i == CHOOSE i \in starts : \A j \in starts : i <= j IN
         <<SubSeq(s, 1, i - 1)>> \o SplitOn(SubSeq(s, i + Len(pat), Len(s)), pat)

RECURSIVE JoinWith(_, _)
JoinWith(pieces, sep) ==
    IF Len(pieces) = 1 THEN pieces[1]
    ELSE pieces[1] \o sep \o JoinWith(Tail(pieces), sep)

\* to before every character of s and at its end
AroundEveryCharacter(s, to) ==
    [k \in 1..(Len(to) + Len(s) * (Len(to) + 1)) |->
        IF k <= Len(to) THEN to[k]
        ELSE LET q  == (k - Len(to) - 1) \div (Len(to) + 1)
                 rm == (k - Len(to) - 1) % (Len(to) + 1)
             IN IF rm = 0 THEN s[q + 1] ELSE to[rm]]

\* s with every occurrence of from replaced by to
AllOccurrencesReplaced(s, from, to) ==
    IF from = <<>> THEN AroundEveryCharacter(s, to) ELSE JoinWith(SplitOn(s, from), to)

\* C20: a permitted edit-file command whose old_text occurs in the file's
\* content and whose read and write succeed writes back the content with
\* every non-overlapping occurrence of old_text, left to right, replaced by
\* new_text.
C20_EditReplacesEveryOccurrence ==
    FirstIsEditOfText /\ Len(commands) = 1
       /\ OccursIn(Unwrap(commands[1].old_text), fsBefore.files[EditedPath].text)
       /\ results[1].kind = "Successfully edited file"
       => /\ fsCalls = << Call("read_file", EditedPath, commands[1]),
                          Call("write_file", EditedPath, commands[1]) >>
          /\ fs.files[EditedPath].text =
                AllOccurrencesReplaced(fsBefore.files[EditedPath].text,
                                       Unwrap(commands[1].old_text),
                                       Unwrap(commands[1].new_text))

\* C20 witness: both occurrences of x in 'xyx' were replaced by y
C20_Witness ==
    /\ FirstIsEditOfText
    /\ Len(commands) = 1
    /\ fsBefore.files[EditedPath].text = <<"x", "y", "x">>
    /\ commands[1].old_text = Some(<<"x">>)
    /\ commands[1].new_text = Some(<<"y">>)
    /\ fs.files[EditedPath].text = <<"y", "y", "y">>

IsRepeatInput ==
    /\ \A i \in 1..Len(xBlocks) : xBlocks[i] \in RepeatBlocks(xName)
    /\ \E i \in 1..Len(xBlocks) : xBlocks[i].shape \in RepeatedShapes

\* the layout left when the second pair of each repeated field is taken away
FirstPairsOnly(shape) ==
    CASE shape = "op_op_path" -> "op_path"
      [] shape = "op_path_path" -> "op_path"
      [] shape = "path_op_path_content_content" -> "op_path_content"
      [] shape = "op_path_old_new_new_old" -> "op_path_old_new"
      [] OTHER -> shape

WithoutRepeats(blocks) ==
    [i \in 1..Len(blocks) |-> [blocks[i] EXCEPT !.shape = FirstPairsOnly(@)]]

\* C21: when the marker pair of a field occurs more than once in a block,
\* the field's value is the text of the first pair: the commands extracted
\* are those of the same blocks without the later pairs, each field holding
\* the value of its first pair.
C21_FirstPairOfAFieldIsUsed ==
    IsSome(xResult) /\ IsRepeatInput =>
        /\ ~Unwrap(xResult).fault
        /\ Unwrap(xResult) = ExtractFsCommands(BlocksText(WithoutRepeats(xBlocks)), xName)
        /\ Len(Unwrap(xResult).cmds) = Len(xBlocks)
        /\ \A i \in 1..Len(xBlocks) :
              Unwrap(xResult).cmds[i] = BlockCmd(WithoutRepeats(xBlocks)[i], i)

\* C21 witness: a block with two path pairs gave the first path
C21_Witness ==
    /\ IsSome(xResult)
    /\ IsRepeatInput
    /\ xBlocks[1].shape = "op_path_path"
    /\ Unwrap(xResult).cmds[1].path = Val("p", 1)

\* a decodable head-update received by a session whose identity is unbound
IsHeadUpdateWhileUnbound ==
    /\ Handled
    /\ lastReq.json
    /\ lastReq.msg_type = Some("head-update")
    /\ received.child_id = None

\* C22: a head-update received while the identity is unbound sends no
\* request to the store, extracts and runs no command, makes no
\* file-resource call and returns the State as received with a reply of
\* empty text.
C22_UnboundHeadUpdateDoesNothing ==
    IsHeadUpdateWhileUnbound =>
        /\ storeReqs = <<>> /\ lastResp = None /\ loaded = None
        /\ commands = <<>> /\ results = <<>> /\ fsCalls = <<>>
        /\ fs = fsBefore
        /\ Cur = received
        /\ reply = Some(ChildMessage("", ReplyText("", <<>>), FALSE, lastReq.head, None))

\* C22 witness: an unbound session got a head-update that names a head
C22_Witness ==
    /\ IsHeadUpdateWhileUnbound
    /\ lastReq.head = Some("h1")
    /\ Cur.child_id = None
    /\ IsSome(reply)

\* a decodable head-update that names a head, received by a session whose
\* identity is bound
PassedIdentityCheck ==
    /\ Handled
    /\ lastReq.json
    /\ lastReq.msg_type = Some("head-update")
    /\ IsSome(received.child_id)
    /\ IsSome(lastReq.head)

\* C23: in every state reached from init the identity is bound exactly when
\* the store handle is bound; so a head-update that passed the identity
\* check always sends its request to the store and never fails with 'Store
\* ID not set'.
C23_IdentityBoundIffStoreBound ==
    /\ IsSome(Cur.child_id) <=> IsSome(Cur.store_id)
    /\ PassedIdentityCheck =>
          /\ storeReqs = << [store |-> Unwrap(received.store_id), type |-> "request",
                             get |-> Unwrap(lastReq.head)] >>
          /\ IsSome(reply) => Unwrap(reply).text.detail # "Store ID not set"

\* C23 witness: a bound session asked its store and the load failed for a
\* reason of the store's
C23_Witness ==
    /\ PassedIdentityCheck
    /\ IsSome(Cur.child_id) /\ IsSome(Cur.store_id)
    /\ Len(storeReqs) = 1
    /\ IsSome(reply)
    /\ Unwrap(reply).text = ReplyText("Failed to load message", "Expected byte array")

MutatingCalls == {"write_file", "create_dir", "delete_file"}

\* C24: while the permission set does not contain 'write', the file resource
\* is as it was at the start, whatever requests and commands came in, and no
\* handler calls write_file, create_dir or delete_file.
C24_NoWriteLeavesResourceAlone ==
    ~Contains(Cur.permissions, "write") =>
        /\ fs = InitialFs
        /\ \A k \in 1..Len(fsCalls) : fsCalls[k].fn \notin MutatingCalls

\* C24 witness: a session that may only read was sent a write-file and a
\* delete-file command in one batch
C24_Witness ==
    /\ Handled
    /\ Cur.permissions = <<"read">>
    /\ \E i, j \in 1..Len(commands) :
          /\ commands[i].operation = <<"write-file">>
          /\ commands[j].operation = <<"delete-file">>
          /\ results[i].kind = "not permitted"
          /\ results[j].kind = "not permitted"
    /\ fs = InitialFs

\* C25: read_file is called only for a read-file command while 'read' is in
\* the permission set, or for an edit-file command that carries both
\* old_text and new_text while 'write' is in the permission set; a session
\* that holds only 'write' reads the file through edit-file, and its result
\* ('Successfully edited' or 'Text to replace not found') tells whether the
\* content holds old_text.
C25_ReadFileOnlyByReadOrEdit ==
    Executed =>
        /\ \A k \in 1..Len(fsCalls) :
              fsCalls[k].fn = "read_file" =>
                  \/ /\ fsCalls[k].operation = <<"read-file">>
                     /\ Contains(received.permissions, "read")
                  \/ /\ fsCalls[k].operation = <<"edit-file">>
                     /\ Contains(received.permissions, "write")
                     /\ \E i \in 1..Len(commands) :
                           /\ commands[i].operation = <<"edit-file">>
                           /\ Complete(commands[i])
                           /\ ResolvePath(received, commands[i].path) = fsCalls[k].path
        /\ FirstIsEditOfText /\ received.permissions = <<"write">> =>
              /\ fsCalls[1] = Call("read_file", EditedPath, commands[1])
              /\ results[1].kind =
                    IF OccursIn(Unwrap(commands[1].old_text), fsBefore.files[EditedPath].text)
                    THEN "Successfully edited file"
                    ELSE "Text to replace not found in"

\* C25 witness: a session holding only 'write' learns through edit-file that
\* the content 'xyx' does not hold 'yy'
C25_Witness ==
    /\ FirstIsEditOfText
    /\ received.permissions = <<"write">>
    /\ commands = <<Edit(<<"f">>, Some(<<"y", "y">>), Some(<<"z">>))>>
    /\ fsBefore.files[EditedPath].text = <<"x", "y", "x">>
    /\ fsCalls = <<Call("read_file", EditedPath, commands[1])>>
    /\ results[1].kind = "Text to replace not found in"

\* the same session and command on the content 'xyy', which holds 'yy'
C25_WitnessFound ==
    /\ FirstIsEditOfText
    /\ received.permissions = <<"write">>
    /\ commands = <<Edit(<<"f">>, Some(<<"y", "y">>), Some(<<"z">>))>>
    /\ fsBefore.files[EditedPath].text = <<"x", "y", "y">>
    /\ results[1].kind = "Successfully edited file"

====
